---- MODULE Spec2Model ----
(***************************************************************************)
(* A model of the AISpace2 front end: the CSP widget view (CSPViewer), its  *)
(* inbound "view:msg" protocol and outbound notifications, and the graph    *)
(* layout functions of GraphLayout.                                         *)
(***************************************************************************)
EXTENDS Naturals, Integers, Sequences, FiniteSets, TLC

(***************************************************************************)
(* Bounds of the model.                                                     *)
(***************************************************************************)
\* longest list of ids carried by one inbound message
MaxIds == 2
\* longest string the user types into the domain-split prompt
MaxInputLen == 1
\* most render callbacks scheduled and not yet run
MaxPending == 1
\* most nodes and most edges of a graph handed to the layout functions
MaxNodes == 3
MaxEdges == 3
\* most layout runs on one such graph
MaxRuns == 2
\* most layout runs on the graph of a view
MaxViewLayouts == 1

(***************************************************************************)
(* Values.                                                                  *)
(***************************************************************************)
\* JavaScript null / undefined, where the other values are strings
Null == "null"
Undefined == "undefined"
\* a value that may be missing (null or undefined), where the other values are
\* lists or numbers: NoValue when missing, Some(v) otherwise
NoValue == <<>>
Some(v) == <<v>>

\* The graph of the snapshot: two variable nodes joined through two edges.
Nodes == {"n1", "n2"}
Edges == {"e1", "e2"}
\* graph.edges, in insertion order
EdgeOrder == <<"e1", "e2">>
\* an id that names neither a node nor an edge
BadId == "zz"

Colours == {"blue", "red"}
Styles == {"bold", "normal"}
\* the colours the controller highlights nodes with
NodeColours == {"red"}
Texts == {"t1"}

\* the characters typed into the prompt; domain values are strings of them
Chars == {"a", "b", ","}
DomA == "a"
DomB == "b"
\* the domain of every variable in the snapshot
InitialDomain == <<DomA, DomB>>
\* the domains SetDomains messages carry
Domains == {<<DomA>>}
\* the domains ChooseDomainSplit messages carry
SplitDomains == {<<DomA, DomB>>, <<DomA>>}

\* all sequences over S of length lo..hi
SeqsUpTo(S, lo, hi) == UNION {[1..n -> S] : n \in lo..hi}

\* sequences without a repeated element
NoRepeat(s) == \A i, j \in 1..Len(s) : s[i] = s[j] => i = j

Range(s) == {s[i] : i \in 1..Len(s)}

(***************************************************************************)
(* State.                                                                   *)
(***************************************************************************)
VARIABLES
  nodes,               \* graph.nodes: id -> [domain, stroke, strokeWidth, x, y]
  edges,               \* graph.edges: id -> [stroke, strokeWidth]
  idMap,               \* graph.idMap: id -> the node or edge it names
  vue,                 \* this.vue: Undefined until the render callback mounts it
  output,              \* this.vue.output
  previouslyRendered,  \* this.model.previouslyRendered
  pendingRenders,      \* render callbacks scheduled by timeout() and not yet run
  initialRenders,      \* number of "initial_render" messages sent so far
  prompt,              \* Some(domain) of the open window.prompt, or NoValue
  lastOp,              \* the last step: an operation, or the action of the event handled
  lastSent,            \* what the last step passed to this.send
  lastParams,          \* Some(layoutParams) of the last layout run, or NoValue
  layoutGraph,         \* a graph handed to the layout functions:
                       \* [nodeIds, nodes: id -> node, edges: sequence of edges]
  opts,                \* the options d3TreeLayout was created with: [rootId]
  layoutStatus,        \* how the last layout run on layoutGraph ended
  layoutRuns,          \* number of layout runs counted so far
  executor             \* the promise executor of the layout call in progress:
                       \* [op, steps, done], or NoValue when none is

\* what only the layout runs change
layoutVars == <<lastParams, layoutGraph, opts, layoutStatus, layoutRuns, executor>>

vars == <<nodes, edges, idMap, vue, output, previouslyRendered,
          pendingRenders, initialRenders, prompt, lastOp, lastSent, layoutVars>>

(***************************************************************************)
(* The graph, as the handlers see it: g = [nodes |-> ..., edges |-> ...].   *)
(***************************************************************************)
\* a node as Graph.fromJSON builds it from the snapshot: no position, no stroke
\* (an unset strokeWidth is written 0)
InitialNode == [domain |-> Some(InitialDomain), stroke |-> Undefined,
                strokeWidth |-> 0, x |-> NoValue, y |-> NoValue]

InitialEdge == [stroke |-> Undefined, strokeWidth |-> 0]

\* graph.idMap after Graph.fromJSON: every node id and every edge id, each
\* naming its own object
InitialIdMap == [id \in Nodes \cup Edges |-> id]

\* idMap[id].styles
StylesOf(g, id) == IF idMap[id] \in Nodes THEN g.nodes[idMap[id]] ELSE g.edges[idMap[id]]

\* this.vue.$set(idMap[id].styles, key, val)
SetStyle(g, id, key, val) ==
  IF idMap[id] \in Nodes
    THEN [g EXCEPT !.nodes[idMap[id]][key] = val]
    ELSE [g EXCEPT !.edges[idMap[id]][key] = val]

\* the result of a handler: the graph it leaves, and whether it threw
Returned(g) == [graph |-> g, threw |-> FALSE]
Threw(g) == [graph |-> g, threw |-> TRUE]

(***************************************************************************)
(* highlightArcs                                                            *)
(***************************************************************************)
\* the two widths exchanged
StrokeWidthOf_swapped(style) == IF style = "bold" THEN 4 ELSE 7

\* style === "bold" ? 7 : 4
StrokeWidthOf(style) == IF style = "bold" THEN 7 ELSE 4

\* the loop over graph.edges (arcIds == null); edge objects are used directly
RECURSIVE HighlightAllArcs(_, _, _, _, _)
HighlightAllArcs(g, order, colour, strokeWidth, v) ==
  IF order = <<>> THEN Returned(g)
  ELSE IF v = Undefined THEN Threw(g)
  ELSE LET e == Head(order)
           stroke == IF colour # Null THEN colour ELSE g.edges[e].stroke
           g1 == [g EXCEPT !.edges[e].stroke = stroke,
                           !.edges[e].strokeWidth = strokeWidth]
       IN HighlightAllArcs(g1, Tail(order), colour, strokeWidth, v)

\* the loop over event.arcIds; idMap[arcId] of an absent id is undefined and
\* reading .styles of it throws a TypeError, as does this.vue.$set of an
\* unset vue
RECURSIVE HighlightNamedArcs(_, _, _, _, _)
HighlightNamedArcs(g, arcIds, colour, strokeWidth, v) ==
  IF arcIds = <<>> THEN Returned(g)
  ELSE LET arcId == Head(arcIds) IN
       IF arcId \notin DOMAIN idMap \/ v = Undefined THEN Threw(g)
       ELSE LET stroke == IF colour # Null THEN colour ELSE StylesOf(g, arcId).stroke
                g1 == SetStyle(SetStyle(g, arcId, "stroke", stroke),
                               arcId, "strokeWidth", strokeWidth)
            IN HighlightNamedArcs(g1, Tail(arcIds), colour, strokeWidth, v)

highlightArcs(g, event, v) ==
  IF event.arcIds = NoValue
    THEN HighlightAllArcs(g, EdgeOrder, event.colour, StrokeWidthOf(event.style), v)
    ELSE HighlightNamedArcs(g, event.arcIds[1], event.colour,
                            StrokeWidthOf(event.style), v)

(***************************************************************************)
(* setDomains                                                               *)
(***************************************************************************)
\* event.domains[i]: an index past the end of a JavaScript array reads undefined
DomainAt(domains, i) == IF i \in 1..Len(domains) THEN Some(domains[i]) ELSE NoValue

\* a domain that is extended, not replaced
SetDomainOf_appending(g, id, value) ==
  IF idMap[id] \in Nodes
    THEN [g EXCEPT !.nodes[idMap[id]].domain =
            IF @ = NoValue \/ value = NoValue THEN value ELSE Some(@[1] \o value[1])]
    ELSE g

\* an undefined domain taken as the removal of the node from graph.nodes
SetDomainOf_removing(g, id, value) ==
  IF idMap[id] \in Nodes
    THEN IF value = NoValue
           THEN [g EXCEPT !.nodes = [n \in DOMAIN g.nodes \ {idMap[id]} |-> g.nodes[n]]]
           ELSE [g EXCEPT !.nodes[idMap[id]].domain = value]
    ELSE g

\* variableNode.domain = value; a node id is expected, any idMap entry is taken
SetDomainOf(g, id, value) ==
  IF idMap[id] \in Nodes
    THEN [g EXCEPT !.nodes[idMap[id]].domain = value]
    ELSE g

RECURSIVE SetDomainsFrom(_, _, _, _)
SetDomainsFrom(g, nodeIds, domains, i) ==
  IF i > Len(nodeIds) THEN Returned(g)
  ELSE IF nodeIds[i] \notin DOMAIN idMap THEN Threw(g)
  ELSE SetDomainsFrom(SetDomainOf(g, nodeIds[i], DomainAt(domains, i)),
                      nodeIds, domains, i + 1)

setDomains(g, event) == SetDomainsFrom(g, event.nodeIds, event.domains, 1)

(***************************************************************************)
(* highlightNodes                                                           *)
(***************************************************************************)
NodeStrokeWidth == 2

RECURSIVE HighlightNodesLoop(_, _, _, _)
HighlightNodesLoop(g, nodeIds, colour, v) ==
  IF nodeIds = <<>> THEN Returned(g)
  ELSE LET nodeId == Head(nodeIds) IN
       IF v = Undefined \/ nodeId \notin DOMAIN idMap THEN Threw(g)
       ELSE LET g1 == SetStyle(SetStyle(g, nodeId, "stroke", colour),
                               nodeId, "strokeWidth", NodeStrokeWidth)
            IN HighlightNodesLoop(g1, Tail(nodeIds), colour, v)

\* every node highlighted, whichever are named
highlightNodes_all(g, event, v) ==
  HighlightNodesLoop(g, <<"n1", "n2">>, event.colour, v)

highlightNodes(g, event, v) == HighlightNodesLoop(g, event.nodeIds, event.colour, v)

(***************************************************************************)
(* The domain-split prompt. The text in the prompt is the sequence of its    *)
(* characters.                                                              *)
(***************************************************************************)
\* String.prototype.split(","), on the characters typed; cur is the piece
\* being read
RECURSIVE SplitFrom(_, _)
SplitFrom(chars, cur) ==
  IF chars = <<>> THEN <<cur>>
  ELSE IF Head(chars) = "," THEN <<cur>> \o SplitFrom(Tail(chars), "")
  ELSE SplitFrom(Tail(chars), cur \o Head(chars))

Split(chars) == SplitFrom(chars, "")

\* .filter(d => d): the empty string is falsy
FilterNonEmpty(pieces) == SelectSeq(pieces, LAMBDA d : d # "")

\* newDomain of the ChooseDomainSplit branch
NewDomain(domainString) ==
  IF domainString # NoValue THEN Some(FilterNonEmpty(Split(domainString[1]))) ELSE NoValue

\* what the user can leave in the prompt: Cancel, or OK with any short text
\* (the text offered, event.domain.join(), is one of them when short enough)
PromptInputs == {NoValue} \cup {Some(str) : str \in SeqsUpTo(Chars, 0, MaxInputLen)}

(***************************************************************************)
(* Inbound messages (controller -> view).                                   *)
(***************************************************************************)
ArcIdLists == {s \in SeqsUpTo(Edges \cup {BadId}, 0, MaxIds) : NoRepeat(s)}
NodeIdLists == {s \in SeqsUpTo(Nodes \cup {BadId}, 0, MaxIds) : NoRepeat(s)}
DomainLists == SeqsUpTo(Domains, 0, MaxIds)

HighlightArcsEvents ==
  [action : {"highlightArcs"}, arcIds : {NoValue} \cup {Some(ids) : ids \in ArcIdLists},
   colour : {Null} \cup Colours, style : Styles]
SetDomainsEvents ==
  [action : {"setDomains"}, nodeIds : NodeIdLists, domains : DomainLists]
HighlightNodesEvents ==
  [action : {"highlightNodes"}, nodeIds : NodeIdLists, colour : NodeColours]
ChooseDomainSplitEvents == [action : {"chooseDomainSplit"}, domain : SplitDomains]
OutputEvents == [action : {"output"}, text : Texts]
\* an event of a kind the view does not know
OtherEvents == [action : {"rerender"}]

InboundEvents ==
  HighlightArcsEvents \cup SetDomainsEvents \cup HighlightNodesEvents
    \cup ChooseDomainSplitEvents \cup OutputEvents \cup OtherEvents

\* the type guards of the Events modules
isHighlightArcsEvent(event) == event.action = "highlightArcs"
isSetDomainsEvent(event) == event.action = "setDomains"
isHighlightNodesEvent(event) == event.action = "highlightNodes"
isChooseDomainSplitEvent(event) == event.action = "chooseDomainSplit"
isOutputEvent(event) == event.action = "output"

(***************************************************************************)
(* Initial state: the view after initialize().                              *)
(***************************************************************************)
InitView ==
  /\ nodes = [n \in Nodes |-> InitialNode]
  /\ edges = [e \in Edges |-> InitialEdge]
  /\ idMap = InitialIdMap
  /\ vue = Undefined
  /\ output = Null
  /\ previouslyRendered = FALSE
  /\ pendingRenders = 0
  /\ initialRenders = 0
  /\ prompt = NoValue
  /\ lastOp = "initialize"
  /\ lastSent = <<>>
  /\ lastParams = NoValue
  /\ layoutStatus = "none"
  /\ layoutRuns = 0
  /\ executor = NoValue

\* a graph without nodes
EmptyGraph == [nodeIds |-> <<>>, nodes |-> <<>>, edges |-> <<>>]

Init ==
  /\ layoutGraph = EmptyGraph
  /\ opts = [rootId |-> NoValue]
  /\ InitView

Graph == [nodes |-> nodes, edges |-> edges]

\* a prompt that does not block the page
EventLoopFree_nonblocking == TRUE

\* window.prompt is modal: while it is open nothing else of the page runs
EventLoopFree == prompt = NoValue

(***************************************************************************)
(* The "view:msg" listener registered by initialize(). Listener gives what  *)
(* one call leaves: the graph, the output text, the prompt it opened (if    *)
(* any) and whether it ended in an uncaught exception.                      *)
(***************************************************************************)
Left(r, out, p) ==
  [graph |-> r.graph, output |-> out, prompt |-> p, threw |-> r.threw]

\* this.vue.output = event.text
SetOutput(g, out, event, v) ==
  IF v = Undefined
    THEN Left(Threw(g), out, NoValue)
    ELSE Left(Returned(g), event.text, NoValue)

\* window.prompt(..., event.domain.join()) opens and blocks
OpenPrompt(g, out, event) == Left(Returned(g), out, Some(event.domain))

\* an unknown event treated as an error
Unhandled_throwing(g, out) == Left(Threw(g), out, NoValue)

\* no branch of the listener takes the event
Unhandled(g, out) == Left(Returned(g), out, NoValue)

Listener(g, out, v, event) ==
  IF isHighlightArcsEvent(event) THEN Left(highlightArcs(g, event, v), out, NoValue)
  ELSE IF isSetDomainsEvent(event) THEN Left(setDomains(g, event), out, NoValue)
  ELSE IF isHighlightNodesEvent(event) THEN Left(highlightNodes(g, event, v), out, NoValue)
  ELSE IF isChooseDomainSplitEvent(event) THEN OpenPrompt(g, out, event)
  ELSE IF isOutputEvent(event) THEN SetOutput(g, out, event, v)
  ELSE Unhandled(g, out)

ViewMsg(event) ==
  /\ EventLoopFree
  /\ \E r \in {Listener(Graph, output, vue, event)} :
       /\ nodes' = r.graph.nodes
       /\ edges' = r.graph.edges
       /\ output' = r.output
       /\ prompt' = r.prompt
  /\ lastOp' = event.action
  /\ lastSent' = <<>>
  /\ UNCHANGED <<idMap, vue, previouslyRendered, pendingRenders, initialRenders>>
  /\ UNCHANGED layoutVars

\* this.send({ event: "domain_split", domain: newDomain })
DomainSplitReply(domainString) ==
  [event |-> "domain_split", domain |-> NewDomain(domainString)]

\* window.prompt returns domainString and the listener sends its reply
PromptReturn(domainString) ==
  /\ prompt # NoValue
  /\ lastSent' = <<DomainSplitReply(domainString)>>
  /\ prompt' = NoValue
  /\ lastOp' = "prompt"
  /\ UNCHANGED <<nodes, edges, idMap, vue, output, previouslyRendered,
                 pendingRenders, initialRenders, layoutVars>>

(***************************************************************************)
(* render() and its deferred callback.                                      *)
(***************************************************************************)
Render ==
  /\ EventLoopFree
  /\ pendingRenders < MaxPending
  /\ pendingRenders' = pendingRenders + 1
  /\ lastOp' = "render"
  /\ lastSent' = <<>>
  /\ UNCHANGED <<nodes, edges, idMap, vue, output, previouslyRendered,
                 initialRenders, prompt, layoutVars>>

\* the bootstrap highlight of the first render
BootstrapEvent ==
  [action |-> "highlightArcs", arcIds |-> NoValue, colour |-> "blue", style |-> "normal"]

\* the guard of the bootstrap left out
FirstRender_unguarded(flag) == TRUE

\* if (!this.model.previouslyRendered)
FirstRender(flag) == ~flag

\* the model's flag once the view has announced its first render
FlagAfterInitialRender == TRUE

RenderCallback ==
  /\ EventLoopFree
  /\ pendingRenders > 0
  /\ pendingRenders' = pendingRenders - 1
  /\ vue' = "mounted"
  /\ output' = Null
  /\ lastOp' = "callback"
  /\ IF FirstRender(previouslyRendered)
       THEN \E r \in {highlightArcs(Graph, BootstrapEvent, "mounted")} :
            /\ lastSent' = <<[event |-> "initial_render"]>>
            /\ initialRenders' = initialRenders + 1
            /\ previouslyRendered' = FlagAfterInitialRender
            /\ nodes' = r.graph.nodes
            /\ edges' = r.graph.edges
            ELSE /\ lastSent' = <<>>
                      /\ UNCHANGED <<nodes, edges, initialRenders, previouslyRendered>>
  /\ UNCHANGED <<idMap, prompt>>
  /\ UNCHANGED layoutVars

(***************************************************************************)
(* Gestures: the handlers the render callback registers on the component.   *)
(***************************************************************************)
StepEvents == {"fine-step:click", "step:click", "auto-step:click"}

Source == [e \in Edges |-> IF e = "e1" THEN "n1" ELSE "n2"]
Target == [e \in Edges |-> IF e = "e1" THEN "n2" ELSE "n1"]

Gesture(msg) ==
  /\ EventLoopFree
  /\ vue # Undefined
  /\ lastOp' = "gesture"
  /\ lastSent' = <<msg>>
  /\ UNCHANGED <<nodes, edges, idMap, vue, output, previouslyRendered,
                 pendingRenders, initialRenders, prompt, layoutVars>>

StepClick(ev) == Gesture([event |-> ev])

EdgeClick(e) ==
  Gesture([event |-> "arc:click", constId |-> Target[e], varName |-> Source[e]])

NodeClick(n) == Gesture([event |-> "var:click", varName |-> n])

Next ==
  \/ \E event \in InboundEvents : ViewMsg(event)
  \/ \E domainString \in PromptInputs : PromptReturn(domainString)
  \/ Render
  \/ RenderCallback
  \/ \E ev \in StepEvents : StepClick(ev)
  \/ \E e \in Edges : EdgeClick(e)
  \/ \E n \in Nodes : NodeClick(n)

Spec == Init /\ [][Next]_vars

(***************************************************************************)
(* Claims about the view.                                                   *)
(***************************************************************************)
InitialRenderMsg == [event |-> "initial_render"]

\* C1: the view sends "initial_render" exactly once: none before its first
\* render callback has run, exactly one from then on, however many render()
\* calls and callbacks follow; only a render callback sends it.
C1_InitialRenderOnce ==
  /\ initialRenders = (IF vue = Undefined THEN 0 ELSE 1)
  /\ previouslyRendered = (vue # Undefined)
  /\ (InitialRenderMsg \in Range(lastSent) => lastOp = "callback")

\* a later render callback of the same view has run and sent nothing
C1_Witness_Rerendered ==
  /\ lastOp = "callback"
  /\ lastSent = <<>>
  /\ initialRenders = 1

IsReply(sent) == Len(sent) = 1 /\ sent[1].event = "domain_split"

\* C2: while the prompt of a ChooseDomainSplit is open the only step the view
\* takes is sending the one "domain_split" reply, which closes the prompt and
\* changes nothing else; a reply is sent only for an open prompt, and a
\* prompt opens only when none is open.
C2_SplitAnsweredOnce ==
  [][ /\ (prompt # NoValue =>
            /\ prompt' = NoValue
            /\ IsReply(lastSent')
            /\ UNCHANGED <<nodes, edges, idMap, output, vue>>)
      /\ (IsReply(lastSent') => prompt # NoValue)
      /\ (prompt' # NoValue =>
            prompt = NoValue /\ lastOp' = "chooseDomainSplit") ]_vars

\* the reply to a ChooseDomainSplit has been sent
C2_Witness_Replied == lastOp = "prompt" /\ IsReply(lastSent) /\ prompt = NoValue

\* C3 (as claimed): the domain of a reply is null or made of values of the
\* requested domain.
C3_ReplyWithinRequest ==
  [][ (prompt # NoValue /\ IsReply(lastSent')) =>
        \/ lastSent'[1].domain = NoValue
        \/ Range(lastSent'[1].domain[1]) \subseteq Range(prompt[1]) ]_vars

\* the ids an event names, in a set
NamedIds(ids) == Range(ids)

\* C4 (as claimed): a SetDomains naming nodes gives nodeIds[i] the domain
\* domains[i] and leaves the other nodes alone when the two lists are equally
\* long, and changes no node when they are not.
C4_SetDomainsChecked ==
  [][ \A ev \in SetDomainsEvents :
        (NamedIds(ev.nodeIds) \subseteq Nodes /\ ViewMsg(ev)) =>
          IF Len(ev.nodeIds) = Len(ev.domains)
            THEN \A n \in Nodes :
                   nodes'[n] =
                     IF n \in NamedIds(ev.nodeIds)
                       THEN [nodes[n] EXCEPT !.domain =
                               Some(ev.domains[CHOOSE i \in 1..Len(ev.nodeIds) :
                                                 ev.nodeIds[i] = n])]
                       ELSE nodes[n]
            ELSE nodes' = nodes ]_vars

\* the edges a HighlightArcs event names
AffectedArcs(ev) == IF ev.arcIds = NoValue THEN Edges ELSE NamedIds(ev.arcIds[1])

\* C5: in a rendered view, a HighlightArcs naming edges (or null, for all of
\* them) gives each affected edge width 7 if style is "bold" and 4 otherwise,
\* and stroke colour, or the stroke it had when colour is missing; the other
\* edges, the nodes and the status text are as before.
C5_HighlightArcs ==
  (EventLoopFree /\ vue # Undefined) =>
    \A ev \in HighlightArcsEvents :
      AffectedArcs(ev) \subseteq Edges =>
        \E r \in {Listener(Graph, output, vue, ev)} :
          /\ \A e \in Edges :
               r.graph.edges[e] =
                 IF e \in AffectedArcs(ev)
                   THEN [stroke |-> IF ev.colour # Null THEN ev.colour
                                    ELSE edges[e].stroke,
                         strokeWidth |-> IF ev.style = "bold" THEN 7 ELSE 4]
                   ELSE edges[e]
          /\ r.graph.nodes = nodes
          /\ r.output = output
          /\ ~r.threw

\* a HighlightArcs has set one edge to bold red and left the other as the
\* bootstrap highlight made it
C5_Witness_OneArcBold ==
  /\ lastOp = "highlightArcs"
  /\ edges["e1"] = [stroke |-> "red", strokeWidth |-> 7]
  /\ edges["e2"] = [stroke |-> "blue", strokeWidth |-> 4]

\* C6: in a rendered view, a HighlightNodes naming nodes sets stroke to colour
\* and stroke width to 2 on each named node; the other nodes, every domain and
\* position, every edge and the status text are as before.
C6_HighlightNodes ==
  (EventLoopFree /\ vue # Undefined) =>
    \A ev \in HighlightNodesEvents :
      NamedIds(ev.nodeIds) \subseteq Nodes =>
        \E r \in {Listener(Graph, output, vue, ev)} :
          /\ \A n \in Nodes :
               r.graph.nodes[n] =
                 IF n \in NamedIds(ev.nodeIds)
                   THEN [nodes[n] EXCEPT !.stroke = ev.colour, !.strokeWidth = 2]
                   ELSE nodes[n]
          /\ r.graph.edges = edges
          /\ r.output = output
          /\ r.prompt = NoValue
          /\ ~r.threw

\* a HighlightNodes has highlighted n1 and not n2
C6_Witness_OneNode ==
  /\ lastOp = "highlightNodes"
  /\ nodes["n1"].stroke = "red" /\ nodes["n1"].strokeWidth = 2
  /\ nodes["n2"].stroke = Undefined /\ nodes["n2"].strokeWidth = 0

\* an event without the ids that idMap does not hold (a SetDomains loses the
\* domains of those ids with them)
KnownIndices(ids) ==
  SelectSeq([i \in 1..Len(ids) |-> i], LAMBDA i : ids[i] \in DOMAIN idMap)
Pick(list, indices) == [k \in 1..Len(indices) |-> list[indices[k]]]
WithoutUnknownIds(ev) ==
  IF isHighlightArcsEvent(ev) THEN
    IF ev.arcIds = NoValue THEN ev
    ELSE [ev EXCEPT !.arcIds = Some(Pick(@[1], KnownIndices(@[1])))]
  ELSE IF isSetDomainsEvent(ev) THEN
    [ev EXCEPT !.nodeIds = Pick(@, KnownIndices(ev.nodeIds)),
               !.domains = Pick(@, KnownIndices(ev.nodeIds))]
  ELSE [ev EXCEPT !.nodeIds = Pick(@, KnownIndices(@))]

\* the SetDomains events with as many domains as ids
WellShaped(ev) == isSetDomainsEvent(ev) => Len(ev.nodeIds) = Len(ev.domains)

\* C7 (as claimed): in a rendered view, a HighlightArcs, HighlightNodes or
\* SetDomains naming an id that idMap does not hold has the effect of the same
\* event without that id: only the mutation of the unknown id is dropped.
C7_UnknownIdDropped ==
  [][ \A ev \in HighlightArcsEvents \cup HighlightNodesEvents \cup SetDomainsEvents :
        (vue # Undefined /\ WellShaped(ev) /\ ViewMsg(ev)) =>
          \E r \in {Listener(Graph, output, vue, WithoutUnknownIds(ev))} :
            nodes' = r.graph.nodes /\ edges' = r.graph.edges ]_vars

\* C8: an event of an unknown kind is ignored: the listener returns without
\* an exception, opens no prompt, and leaves the graph and the status text as
\* they were; the step sends nothing.
C8_UnknownEventIgnored ==
  /\ EventLoopFree =>
       \A ev \in OtherEvents :
         Listener(Graph, output, vue, ev) =
           [graph |-> Graph, output |-> output, prompt |-> NoValue, threw |-> FALSE]
  /\ lastOp \in {ev.action : ev \in OtherEvents} => lastSent = <<>>

\* an unknown event has been handled by a rendered view with a status text
C8_Witness_Ignored ==
  /\ lastOp \in {ev.action : ev \in OtherEvents}
  /\ vue # Undefined
  /\ output = "t1"
  /\ edges["e1"].stroke = "red"

MutationEvents ==
  HighlightArcsEvents \cup HighlightNodesEvents \cup SetDomainsEvents \cup OutputEvents

\* C9: handling a HighlightArcs, HighlightNodes, SetDomains or Output event a
\* second time, right after the first, leaves the graph and the status text as
\* the first handling left them.
C9_ReplayIdempotent ==
  EventLoopFree =>
    \A ev \in MutationEvents :
      \E r1 \in {Listener(Graph, output, vue, ev)} :
        \E r2 \in {Listener(r1.graph, r1.output, vue, ev)} :
          r2.graph = r1.graph /\ r2.output = r1.output

\* a SetDomains has replaced the domain of n1 in a rendered view
C9_Witness_Mutated ==
  /\ lastOp = "setDomains"
  /\ vue # Undefined
  /\ nodes["n1"].domain = Some(<<DomA>>)
  /\ nodes["n2"].domain = Some(InitialDomain)

(***************************************************************************)
(* Numbers. A JavaScript number is modelled by the rational it stands for,  *)
(* <<n, d>> in lowest terms with d > 0; 0/0 is NaN and n/0 an infinity. A   *)
(* coordinate that was never assigned is NoValue.                           *)
(***************************************************************************)
Abs(i) == IF i < 0 THEN -i ELSE i
Sign(i) == IF i < 0 THEN -1 ELSE IF i > 0 THEN 1 ELSE 0

RECURSIVE Gcd(_, _)
Gcd(a, b) == IF b = 0 THEN a ELSE Gcd(b, a % b)

\* n/d for integers n and d
Frac(n, d) ==
  IF d = 0 THEN <<Sign(n), 0>>
  ELSE LET g == Gcd(Abs(n), Abs(d)) IN <<Sign(d) * (n \div g), Abs(d) \div g>>

Num(i) == <<i, 1>>
NaN == <<0, 0>>
IsFinite(a) == a[2] # 0

Minus(a, b) ==
  IF IsFinite(a) /\ IsFinite(b) THEN Frac(a[1] * b[2] - b[1] * a[2], a[2] * b[2])
  ELSE IF IsFinite(b) THEN a
  ELSE IF IsFinite(a) THEN <<-b[1], 0>>
  ELSE IF a[1] = -b[1] THEN a ELSE NaN

Plus(a, b) == Minus(a, <<-b[1], b[2]>>)

Times(a, b) ==
  IF IsFinite(a) /\ IsFinite(b) THEN Frac(a[1] * b[1], a[2] * b[2])
  ELSE <<Sign(a[1]) * Sign(b[1]), 0>>

Over(a, b) ==
  IF IsFinite(a) /\ IsFinite(b) THEN Frac(a[1] * b[2], a[2] * b[1])
  ELSE IF IsFinite(b) THEN <<a[1] * (IF b[1] < 0 THEN -1 ELSE 1), 0>>
  ELSE IF IsFinite(a) /\ b # NaN THEN Num(0)
  ELSE NaN

\* a < b, for finite a and b
Less(a, b) == a[1] * b[2] < b[1] * a[2]

\* Math.max and Math.min of two finite numbers
MathMax(a, b) == IF Less(a, b) THEN b ELSE a
MathMin(a, b) == IF Less(b, a) THEN b ELSE a

\* !v is false: v is neither undefined nor NaN nor 0
Truthy(v) == v # NoValue /\ v # NaN /\ v # Num(0)

(***************************************************************************)
(* scaleNodePositions: ns maps the ids of graph.nodes to the nodes.         *)
(***************************************************************************)
\* the nodes the two loops do not skip
Placed(ns) == {n \in DOMAIN ns : Truthy(ns[n].x) /\ Truthy(ns[n].y)}

\* the largest and the smallest of a non-empty set of finite numbers
MaxOf(vs) == CHOOSE v \in vs : \A w \in vs : ~Less(v, w)
MinOf(vs) == CHOOSE v \in vs : \A w \in vs : ~Less(w, v)

ScaleEdgePadding == 60

\* a rescale that measures from the origin instead of the bounding box
Scaled_fromOrigin(dimension, v, min, max) ==
  Plus(Over(Times(Num(dimension - ScaleEdgePadding * 2), v), Minus(max, min)),
       Num(ScaleEdgePadding))

\* ((dimension - edgePadding * 2) * (v - min)) / (max - min) + edgePadding
Scaled(dimension, v, min, max) ==
  Plus(Over(Times(Num(dimension - ScaleEdgePadding * 2), Minus(v, min)),
            Minus(max, min)),
       Num(ScaleEdgePadding))

scaleNodePositions(layoutParams, ns) ==
  IF Placed(ns) = {} THEN ns
  ELSE LET xs == {ns[n].x : n \in Placed(ns)}
           ys == {ns[n].y : n \in Placed(ns)}
           minX == MinOf(xs)
           maxX == MaxOf(xs)
           minY == MinOf(ys)
           maxY == MaxOf(ys)
       IN [n \in DOMAIN ns |->
             IF n \in Placed(ns)
               THEN [ns[n] EXCEPT !.x = Scaled(layoutParams.width, @, minX, maxX),
                                  !.y = Scaled(layoutParams.height, @, minY, maxY)]
               ELSE ns[n]]

(***************************************************************************)
(* d3ForceLayout. The simulation is d3's: what it computes is any position  *)
(* for every node; sim[n] is where its last tick leaves node n, before the  *)
(* clamp that follows every tick.                                           *)
(***************************************************************************)
ForceEdgePadding == 50

\* a clamp that forgets the far side of the canvas
Bound_lowerOnly(dimension, v) == MathMax(Num(ForceEdgePadding), v)

\* Math.max(edgePadding, Math.min(dimension - edgePadding, v))
Bound(dimension, v) ==
  MathMax(Num(ForceEdgePadding), MathMin(Num(dimension - ForceEdgePadding), v))

\* graphCopy.nodes after the last tick
Simulated(layoutParams, sim) ==
  [n \in DOMAIN sim |-> [x |-> Bound(layoutParams.width, Num(sim[n].x)),
                         y |-> Bound(layoutParams.height, Num(sim[n].y))]]

\* the copy of the simulated positions onto the nodes that have none
CopyMissing(ns, copy) ==
  [n \in DOMAIN ns |->
     [ns[n] EXCEPT !.x = IF ~Truthy(@) THEN copy[n].x ELSE @,
                   !.y = IF ~Truthy(@) THEN copy[n].y ELSE @]]

d3ForceLayout(layoutParams, ns, sim) ==
  CopyMissing(scaleNodePositions(layoutParams, ns), Simulated(layoutParams, sim))

\* relativeLayout
relativeLayout(layoutParams, ns) == scaleNodePositions(layoutParams, ns)

(***************************************************************************)
(* The layouts at work on the graph of a view.                              *)
(***************************************************************************)
\* the canvas sizes the component passes: the 0 x 0 it is created with, and
\* the sizes it measures
CanvasSizes ==
  {[width |-> 0, height |-> 0], [width |-> 200, height |-> 200],
   [width |-> 300, height |-> 200]}

\* where a simulation may leave a node on either axis
SimulatedCoordinates == {0, 100, 400}

ForceLayout(layoutParams, sim) ==
  /\ nodes' = d3ForceLayout(layoutParams, nodes, sim)
  /\ lastOp' = "d3ForceLayout"
  /\ lastParams' = Some(layoutParams)
  /\ UNCHANGED <<layoutGraph, opts, layoutStatus, layoutRuns, executor>>
  /\ UNCHANGED <<edges, idMap, vue, output, previouslyRendered, pendingRenders,
                 initialRenders, prompt, lastSent>>

RelativeLayout(layoutParams) ==
  /\ nodes' = relativeLayout(layoutParams, nodes)
  /\ lastOp' = "relativeLayout"
  /\ lastParams' = Some(layoutParams)
  /\ UNCHANGED <<layoutGraph, opts, layoutStatus, layoutRuns, executor>>
  /\ UNCHANGED <<edges, idMap, vue, output, previouslyRendered, pendingRenders,
                 initialRenders, prompt, lastSent>>

NextLayout ==
  \/ \E layoutParams \in CanvasSizes :
       \E sim \in [Nodes -> [x : SimulatedCoordinates, y : SimulatedCoordinates]] :
         ForceLayout(layoutParams, sim)
  \/ \E layoutParams \in CanvasSizes : RelativeLayout(layoutParams)

SpecLayout == Init /\ [][NextLayout]_vars

\* a node with a position: both coordinates are numbers
HasPosition(node) ==
  /\ node.x # NoValue /\ node.x # NaN
  /\ node.y # NoValue /\ node.y # NaN

\* C10 (as claimed): the force layout leaves the x and y of every node that
\* had a position as they were.
C10_ForceKeepsPositions ==
  [][ lastOp' = "d3ForceLayout" =>
        \A n \in Nodes :
          HasPosition(nodes[n]) =>
            nodes'[n].x = nodes[n].x /\ nodes'[n].y = nodes[n].y ]_vars

(***************************************************************************)
(* The force layout and the canvas.                                         *)
(***************************************************************************)
Unpositioned(ns) == \A n \in DOMAIN ns : ns[n].x = NoValue /\ ns[n].y = NoValue

\* lo <= v <= hi, for a coordinate v and integers lo and hi
Between(lo, v, hi) ==
  /\ v # NoValue /\ IsFinite(v)
  /\ ~Less(v, Num(lo)) /\ ~Less(Num(hi), v)

\* C11 (as claimed): after the force layout of a graph without positions every
\* node has padding <= x <= width - padding and padding <= y <= height -
\* padding, whatever the canvas.
C11_ForceWithinCanvas ==
  [][ (lastOp' = "d3ForceLayout" /\ Unpositioned(nodes)) =>
        \A n \in Nodes :
          /\ Between(ForceEdgePadding, nodes'[n].x,
                     lastParams'[1].width - ForceEdgePadding)
          /\ Between(ForceEdgePadding, nodes'[n].y,
                     lastParams'[1].height - ForceEdgePadding) ]_vars

\* the clamp on one axis, as amended
WithinOrAtPadding(dimension, v) ==
  IF dimension >= 2 * ForceEdgePadding
    THEN Between(ForceEdgePadding, v, dimension - ForceEdgePadding)
    ELSE v = Num(ForceEdgePadding)

\* C11 (amended): after the force layout of a graph without positions every
\* node is within [padding, dimension - padding] on each axis whose dimension
\* is at least 2 * padding, and exactly at padding on a smaller axis (the
\* 0 x 0 canvas included).
C11_ForceWithinCanvas_Amended ==
  [][ (lastOp' = "d3ForceLayout" /\ Unpositioned(nodes)) =>
        \A n \in Nodes :
          /\ WithinOrAtPadding(lastParams'[1].width, nodes'[n].x)
          /\ WithinOrAtPadding(lastParams'[1].height, nodes'[n].y) ]_vars

\* a force layout has clamped a node at both sides of a 200 x 200 canvas
C11_Witness_Clamped ==
  /\ lastOp = "d3ForceLayout"
  /\ lastParams = Some([width |-> 200, height |-> 200])
  /\ nodes["n1"].x = Num(ForceEdgePadding)
  /\ nodes["n1"].y = Num(200 - ForceEdgePadding)

(***************************************************************************)
(* The rescale layout.                                                      *)
(***************************************************************************)
SamePositions(ns, ms) ==
  \A n \in DOMAIN ns : ms[n].x = ns[n].x /\ ms[n].y = ns[n].y

\* C14 (as claimed): the rescale layout run with the layout parameters the
\* current positions were produced under leaves every x and y unchanged.
C14_RescaleIdentity ==
  [][ (lastOp' = "relativeLayout" /\ lastParams' = lastParams) =>
        SamePositions(nodes, nodes') ]_vars

\* the positioned nodes differ in x and differ in y
Spread(ns) ==
  /\ Cardinality({ns[n].x : n \in Placed(ns)}) > 1
  /\ Cardinality({ns[n].y : n \in Placed(ns)}) > 1

\* C14 (amended): the rescale layout run again with the layout parameters of
\* the rescale layout that produced the current positions, on a canvas wider
\* and higher than 2 * padding, with positioned nodes that differ in x and
\* in y, leaves every x and y unchanged.
C14_RescaleTwice ==
  [][ ( /\ lastOp = "relativeLayout" /\ lastOp' = "relativeLayout"
        /\ lastParams' = lastParams
        /\ lastParams[1].width > 2 * ScaleEdgePadding
        /\ lastParams[1].height > 2 * ScaleEdgePadding
        /\ Spread(nodes) ) =>
        SamePositions(nodes, nodes') ]_vars

\* a rescale layout has spread the nodes over a 200 x 200 canvas, where a
\* second one finds them
C14_Witness_Rescaled ==
  /\ lastOp = "relativeLayout"
  /\ lastParams = Some([width |-> 200, height |-> 200])
  /\ Placed(nodes) = Nodes
  /\ Spread(nodes)
  /\ relativeLayout(lastParams[1], nodes) = nodes

\* the positioned nodes share one coordinate on the axis
ZeroExtent(ns, axis) ==
  /\ Placed(ns) # {}
  /\ Cardinality({ns[n][axis] : n \in Placed(ns)}) = 1

\* C15 (as claimed): when the positioned nodes share one x (or one y) the
\* rescale layout leaves the coordinates of that axis as they were, and every
\* node that had a position still has a numeric one.
C15_RescaleZeroExtent ==
  [][ lastOp' = "relativeLayout" =>
        \A n \in Placed(nodes) :
          /\ ZeroExtent(nodes, "x") => nodes'[n].x = nodes[n].x
          /\ ZeroExtent(nodes, "y") => nodes'[n].y = nodes[n].y
          /\ HasPosition(nodes'[n]) ]_vars

(***************************************************************************)
(* Graphs handed to the layout functions: nodes in insertion order, edges   *)
(* between two different nodes of the graph, no edge twice.                 *)
(***************************************************************************)
NodeNames == <<"A", "B", "C", "D", "E">>

\* a node and an edge as Graph.fromJSON builds them: no position, no styles
LayoutNode == [x |-> NoValue, y |-> NoValue, radius |-> NoValue]

LayoutEdge(source, target) ==
  [source |-> source, target |-> target,
   x1 |-> NoValue, y1 |-> NoValue, x2 |-> NoValue, y2 |-> NoValue,
   styles |-> [x1 |-> NoValue, y1 |-> NoValue, x2 |-> NoValue, y2 |-> NoValue,
               overlapped |-> FALSE]]

Links(ids) == {l \in Range(ids) \X Range(ids) : l[1] # l[2]}

GraphOf(ids, links) ==
  [nodeIds |-> ids,
   nodes |-> [id \in Range(ids) |-> LayoutNode],
   edges |-> [i \in 1..Len(links) |-> LayoutEdge(links[i][1], links[i][2])]]

LayoutGraphs ==
  UNION {{GraphOf(ids, links) :
            links \in {l \in SeqsUpTo(Links(ids), 0, MaxEdges) : NoRepeat(l)}} :
         ids \in {SubSeq(NodeNames, 1, k) : k \in 0..MaxNodes}}

\* opts.rootId: not given, or an id (of the graph or not)
RootIds == {NoValue, Some(NodeNames[2])}

(***************************************************************************)
(* d3TreeLayout: the hierarchy.                                             *)
(***************************************************************************)
\* graph.nodes.find(n => n.id === opts.rootId), or graph.nodes[0]
rootNode(g, o) ==
  IF o.rootId # NoValue /\ o.rootId[1] \in Range(g.nodeIds)
    THEN o.rootId[1] ELSE g.nodeIds[1]

\* the loop over graph.edges; h = [children: id -> the children of map[id],
\* nodeMapInTree: the ids attached as a child so far]
RECURSIVE Attach(_, _, _)
Attach(es, i, h) ==
  IF i > Len(es) THEN h
  ELSE LET source == es[i].source
           target == es[i].target
       IN IF \/ \E k \in 1..Len(h.children[target]) : h.children[target][k] = source
             \/ target \in h.nodeMapInTree
            THEN Attach(es, i + 1, h)
            ELSE Attach(es, i + 1,
                        [children |-> [h.children EXCEPT ![source] = Append(@, target)],
                         nodeMapInTree |-> h.nodeMapInTree \cup {target}])

HierarchyOf(g) ==
  Attach(g.edges, 1, [children |-> [id \in Range(g.nodeIds) |-> <<>>],
                      nodeMapInTree |-> {}])

\* the nodes reached from the nodes of S by child links, S included
RECURSIVE Reach(_, _)
Reach(h, S) ==
  LET T == S \cup UNION {Range(h.children[p]) : p \in S}
  IN IF T = S THEN S ELSE Reach(h, T)

Descendants(h, id) == Reach(h, Range(h.children[id]))

\* d3.hierarchy(rootData) walks the children of every node it meets: it ends
\* only if the root is not below itself
Diverges(h, root) == root \in Descendants(h, root)

\* the children of the nodes of a level, in order
RECURSIVE ChildrenFrom(_, _, _)
ChildrenFrom(h, level, i) ==
  IF i > Len(level) THEN <<>>
  ELSE h.children[level[i]] \o ChildrenFrom(h, level, i + 1)

\* the nodes of each depth, in the breadth-first order of root.each
RECURSIVE LevelsFrom(_, _)
LevelsFrom(h, level) ==
  IF level = <<>> THEN <<>>
  ELSE <<level>> \o LevelsFrom(h, ChildrenFrom(h, level, 1))

sameLeveNodesList(h, root) == LevelsFrom(h, <<root>>)

(***************************************************************************)
(* More of the numbers: undefined operands, ===, Math.sqrt.                 *)
(***************************************************************************)
\* an undefined operand of an arithmetic operator is NaN
ToNumber(v) == IF v = NoValue THEN NaN ELSE v

\* a === b: NaN is not equal to itself, undefined is
StrictEq(a, b) == a = b /\ a # NaN

\* the largest integer whose square is at most k, searched in lo..hi-1
RECURSIVE ISqrtIn(_, _, _)
ISqrtIn(k, lo, hi) ==
  IF hi - lo <= 1 THEN lo
  ELSE LET mid == (lo + hi) \div 2
       IN IF mid * mid <= k THEN ISqrtIn(k, mid, hi) ELSE ISqrtIn(k, lo, mid)

ISqrt(k) == ISqrtIn(k, 0, IF k < 46340 THEN k + 1 ELSE 46340)

\* Math.sqrt: exact where the root is rational, as it is on the canvases of
\* this model, and rounded down to a multiple of 1/d elsewhere
Sqrt(a) ==
  IF ~IsFinite(a) THEN (IF a[1] > 0 THEN a ELSE NaN)
  ELSE IF a[1] < 0 THEN NaN
  ELSE Frac(ISqrt(a[1] * a[2]), a[2])

(***************************************************************************)
(* d3TreeLayout: positions and radii.                                       *)
(***************************************************************************)
TreeMinRadius == 1
TreeMaxRadius == 50
TreeNodeGap == 15

\* layoutParams.height / (maxDepth + 2)
heightDivision(layoutParams, maxDepth) ==
  Over(Num(layoutParams.height), Num(maxDepth + 2))

\* the y of d3.tree() for a node: its depth, scaled to [0, 1]
TreeY(depth, maxDepth) == Frac(depth, IF maxDepth = 0 THEN 1 ELSE maxDepth)

\* (layoutParams.width / sameLevelNodes.length) / 2 - 15
newradius(layoutParams, sameLevelNodes) ==
  Minus(Over(Over(Num(layoutParams.width), Num(Len(sameLevelNodes))), Num(2)),
        Num(TreeNodeGap))

\* sameLevelNodes.indexOf(node)
IndexOf(sameLevelNodes, id) ==
  (CHOOSE i \in 1..Len(sameLevelNodes) : sameLevelNodes[i] = id) - 1

\* a radius without the upper limit
RadiusOf_uncapped(r) == IF ~Less(Num(0), r) THEN Num(TreeMinRadius) ELSE r

\* node.styles.radius of the nodes of a level
RadiusOf(r) ==
  IF ~Less(Num(0), r) THEN Num(TreeMinRadius)
  ELSE IF ~Less(r, Num(TreeMaxRadius)) THEN Num(TreeMaxRadius)
  ELSE r

\* a node of the hierarchy after root.each and the loop over the levels;
\* breadth is the x of d3.tree() for it, a number of [0, 1]
TreeNode(layoutParams, levels, depth, id, breadth) ==
  LET maxDepth == Len(levels) - 1
      division == heightDivision(layoutParams, maxDepth)
      r == newradius(layoutParams, levels[depth + 1])
  IN [x |-> IF ~Less(Num(0), r)
              THEN Times(breadth, Num(layoutParams.width))
              ELSE Times(Num(2 * IndexOf(levels[depth + 1], id) + 1),
                         Plus(r, Num(TreeNodeGap))),
      y |-> Plus(Times(TreeY(depth, maxDepth),
                       Minus(Minus(Num(layoutParams.height), division), division)),
                 division),
      radius |-> RadiusOf(r)]

\* graph.nodes once the hierarchy is laid out: the nodes outside it are left
PlaceTree(layoutParams, ns, levels, breadth) ==
  [id \in DOMAIN ns |->
     IF \E d \in 1..Len(levels) : id \in Range(levels[d])
       THEN TreeNode(layoutParams, levels,
                     (CHOOSE d \in 1..Len(levels) : id \in Range(levels[d])) - 1,
                     id, breadth[id])
       ELSE ns[id]]

(***************************************************************************)
(* d3TreeLayout: overlapped edges.                                          *)
(***************************************************************************)
OverlapRadius == 5

\* edge.x1 = edge.source.x, ... for every edge
WithEnds(es, ns) ==
  [i \in DOMAIN es |->
     [es[i] EXCEPT !.x1 = ns[es[i].source].x, !.y1 = ns[es[i].source].y,
                   !.x2 = ns[es[i].target].x, !.y2 = ns[es[i].target].y]]

\* the test of the two nested loops
Overlapping(e1, e2) ==
  /\ e1.source = e2.target
  /\ e1.target = e2.source
  /\ StrictEq(e1.styles.x1, e2.styles.x2)
  /\ StrictEq(e1.styles.x2, e2.styles.x1)

\* the body of the two nested loops, for e1 = es[i] and e2 = es[j]
SplitPair(es, ns, i, j) ==
  LET xa == ToNumber(ns[es[i].source].x)
      ya == ToNumber(ns[es[i].source].y)
      xb == ToNumber(ns[es[i].target].x)
      yb == ToNumber(ns[es[i].target].y)
      length == Sqrt(Plus(Times(Minus(yb, ya), Minus(yb, ya)),
                          Times(Minus(xb, xa), Minus(xb, xa))))
      cos == Over(Minus(yb, ya), length)
      sin == Over(Minus(xb, xa), length)
      radius == Num(OverlapRadius)
  IN [es EXCEPT
        ![j].styles = [x1 |-> Plus(Times(cos, radius), xb),
                       x2 |-> Plus(Times(cos, radius), xa),
                       y1 |-> Minus(yb, Times(sin, radius)),
                       y2 |-> Minus(ya, Times(sin, radius)),
                       overlapped |-> TRUE],
        ![i].styles = [x1 |-> Minus(xa, Times(cos, radius)),
                       x2 |-> Minus(xb, Times(cos, radius)),
                       y1 |-> Plus(Times(sin, radius), ya),
                       y2 |-> Plus(Times(sin, radius), yb),
                       overlapped |-> TRUE]]

\* graph.edges.forEach(e1 => graph.edges.forEach(e2 => ...)), from the k-th
\* pair on
RECURSIVE SplitOverlapped(_, _, _)
SplitOverlapped(es, ns, k) ==
  IF k >= Len(es) * Len(es) THEN es
  ELSE LET i == (k \div Len(es)) + 1
           j == (k % Len(es)) + 1
       IN SplitOverlapped(IF Overlapping(es[i], es[j]) THEN SplitPair(es, ns, i, j) ELSE es,
                          ns, k + 1)

(***************************************************************************)
(* d3TreeLayout                                                             *)
(***************************************************************************)
\* the layout of a graph with a node
TreeOf(g, o, layoutParams, breadth) ==
  LET h == HierarchyOf(g)
      root == rootNode(g, o)
  IN IF Diverges(h, root) THEN [graph |-> g, status |-> "diverged"]
     ELSE LET ns == PlaceTree(layoutParams, g.nodes, sameLeveNodesList(h, root), breadth)
          IN [graph |-> [g EXCEPT !.nodes = ns,
                                  !.edges = SplitOverlapped(WithEnds(g.edges, ns), ns, 0)],
              status |-> "resolved"]

\* a tree layout without the test for an empty graph: graph.nodes[0] is
\* undefined, and reading its id throws
d3TreeLayout_unguarded(g, o, layoutParams, breadth) ==
  IF Len(g.nodeIds) = 0 THEN [graph |-> g, status |-> "threw"]
  ELSE TreeOf(g, o, layoutParams, breadth)

d3TreeLayout(g, o, layoutParams, breadth) ==
  IF Len(g.nodeIds) = 0 THEN [graph |-> g, status |-> "resolved"]
  ELSE TreeOf(g, o, layoutParams, breadth)

(***************************************************************************)
(* The layouts at work on a graph.                                          *)
(***************************************************************************)
TreeCanvasSizes ==
  {[width |-> 0, height |-> 0], [width |-> 160, height |-> 90],
   [width |-> 320, height |-> 180]}

\* the x of d3.tree() for a node
Breadths == {Frac(1, 4), Frac(3, 4)}

\* a layout run on layoutGraph; none starts once one has failed to end
LayoutRun(op, layoutParams, r) ==
  /\ layoutRuns < MaxRuns
  /\ layoutStatus \in {"none", "resolved"}
  /\ layoutGraph' = r.graph
  /\ layoutStatus' = r.status
  /\ layoutRuns' = layoutRuns + 1
  /\ lastOp' = op
  /\ lastParams' = Some(layoutParams)
  /\ UNCHANGED <<nodes, edges, idMap, vue, output, previouslyRendered,
                 pendingRenders, initialRenders, prompt, lastSent, opts, executor>>

TreeLayout(layoutParams, breadth) ==
  \E r \in {d3TreeLayout(layoutGraph, opts, layoutParams, breadth)} :
    LayoutRun("d3TreeLayout", layoutParams, r)

GraphForceLayout(layoutParams, sim) ==
  LayoutRun("d3ForceLayout", layoutParams,
            [graph |-> [layoutGraph EXCEPT !.nodes = d3ForceLayout(layoutParams, @, sim)],
             status |-> "resolved"])

GraphRelativeLayout(layoutParams) ==
  LayoutRun("relativeLayout", layoutParams,
            [graph |-> [layoutGraph EXCEPT !.nodes = relativeLayout(layoutParams, @)],
             status |-> "resolved"])

InitGraphLayout ==
  /\ layoutGraph \in LayoutGraphs
  /\ opts \in [rootId : RootIds]
  /\ InitView

NextGraphLayout ==
  \/ \E layoutParams \in TreeCanvasSizes :
       \E b \in Breadths :
         TreeLayout(layoutParams, [id \in Range(layoutGraph.nodeIds) |-> b])
  \/ \E layoutParams \in TreeCanvasSizes :
       \E c \in SimulatedCoordinates :
         GraphForceLayout(layoutParams,
                          [id \in Range(layoutGraph.nodeIds) |-> [x |-> c, y |-> c]])
  \/ \E layoutParams \in TreeCanvasSizes : GraphRelativeLayout(layoutParams)

SpecGraphLayout == InitGraphLayout /\ [][NextGraphLayout]_vars

(***************************************************************************)
(* The hierarchy of the tree layout.                                        *)
(***************************************************************************)
\* the parent/child links of a hierarchy
LinksOf(h) == {l \in (DOMAIN h.children) \X (DOMAIN h.children) :
                 l[2] \in Range(h.children[l[1]])}

\* the graph is the two-node cycle A->B, B->A
TwoNodeCycle(g) ==
  /\ Len(g.nodeIds) = 2
  /\ {<<g.edges[i].source, g.edges[i].target>> : i \in DOMAIN g.edges} = Links(g.nodeIds)

IsTree(h, root) ==
  /\ \A n \in DOMAIN h.children : Cardinality({l \in LinksOf(h) : l[2] = n}) <= 1
  /\ \A l \in LinksOf(h) : l[2] # root
  /\ \A n \in DOMAIN h.children : n \notin Descendants(h, n)

\* C12 (as claimed): the hierarchy the tree layout builds for a graph is a
\* tree (no node with two parents, the root nobody's child, no node below
\* itself), the layout ends, and of a two-node cycle exactly one edge becomes
\* a parent/child link.
C12_HierarchyIsTree ==
  [][ (lastOp' = "d3TreeLayout" /\ Len(layoutGraph.nodeIds) > 0) =>
        /\ IsTree(HierarchyOf(layoutGraph), rootNode(layoutGraph, opts))
        /\ layoutStatus' = "resolved"
        /\ TwoNodeCycle(layoutGraph) =>
             Cardinality(LinksOf(HierarchyOf(layoutGraph))) = 1 ]_vars

(***************************************************************************)
(* The layouts of a graph without nodes.                                    *)
(***************************************************************************)
\* C18: a force, tree or rescale layout of a graph without nodes resolves and
\* leaves the graph as it was.
C18_ZeroNodes ==
  [][ (lastOp' \in {"d3ForceLayout", "d3TreeLayout", "relativeLayout"}
       /\ Len(layoutGraph.nodeIds) = 0) =>
        /\ layoutStatus' = "resolved"
        /\ layoutGraph' = layoutGraph ]_vars

\* an empty graph after a tree layout that followed another layout
C18_Witness_EmptyLaidOut ==
  /\ layoutGraph = EmptyGraph
  /\ layoutRuns = 2
  /\ lastOp = "d3TreeLayout"
  /\ layoutStatus = "resolved"

(***************************************************************************)
(* The overlapped edges of the tree layout.                                 *)
(***************************************************************************)
IsNumber(v) == v # NoValue /\ IsFinite(v)
Neg(a) == <<-a[1], a[2]>>

\* e1 and e2 join the nodes a = e1.source and b = e1.target in opposite
\* directions: both ends of e1 are displaced from the centres of a and b by
\* one vector v of length 5 perpendicular to the line from a to b, both ends
\* of e2 by -v, and v lies on the left of the direction of e1
Mirrored(ns, e1, e2) ==
  /\ e1.styles.overlapped /\ e2.styles.overlapped
  /\ \A c \in {ns[e1.source].x, ns[e1.source].y, ns[e1.target].x, ns[e1.target].y,
               e1.styles.x1, e1.styles.y1, e1.styles.x2, e1.styles.y2,
               e2.styles.x1, e2.styles.y1, e2.styles.x2, e2.styles.y2} : IsNumber(c)
  /\ LET xa == ns[e1.source].x
         ya == ns[e1.source].y
         xb == ns[e1.target].x
         yb == ns[e1.target].y
         vx == Minus(e1.styles.x1, xa)
         vy == Minus(e1.styles.y1, ya)
     IN /\ Minus(e1.styles.x2, xb) = vx /\ Minus(e1.styles.y2, yb) = vy
        /\ Plus(Times(vx, vx), Times(vy, vy)) = Num(25)
        /\ Plus(Times(vx, Minus(xb, xa)), Times(vy, Minus(yb, ya))) = Num(0)
        /\ Minus(e2.styles.x1, xb) = Neg(vx) /\ Minus(e2.styles.y1, yb) = Neg(vy)
        /\ Minus(e2.styles.x2, xa) = Neg(vx) /\ Minus(e2.styles.y2, ya) = Neg(vy)
        /\ Less(Num(0), Minus(Times(Minus(xb, xa), vy), Times(Minus(yb, ya), vx)))

\* C13 (as claimed): after the tree layout, two edges that join the same two
\* nodes in opposite directions are both flagged overlapped and their ends
\* are offset by mirrored vectors of length 5 perpendicular to the line
\* between the nodes, the earlier edge always on the same side.
C13_OverlappedEdges ==
  [][ (lastOp' = "d3TreeLayout" /\ layoutStatus' = "resolved") =>
        \A i, j \in DOMAIN layoutGraph'.edges :
          ( /\ i < j
            /\ layoutGraph'.edges[i].source = layoutGraph'.edges[j].target
            /\ layoutGraph'.edges[i].target = layoutGraph'.edges[j].source ) =>
            Mirrored(layoutGraph'.nodes, layoutGraph'.edges[i], layoutGraph'.edges[j]) ]_vars

(***************************************************************************)
(* The nodes of one level of the tree layout.                               *)
(***************************************************************************)
AbsNum(a) == <<Abs(a[1]), a[2]>>

\* min(50, w/n/2 - 15), and 1 where that is not positive
ClaimedRadius(w, n) ==
  LET r == MathMin(Num(50), Minus(Over(Over(Num(w), Num(n)), Num(2)), Num(15)))
  IN IF ~Less(Num(0), r) THEN Num(1) ELSE r

\* C19 (as claimed): after the tree layout on a canvas of width w the nodes of
\* a level of n nodes share the radius r = min(50, w/n/2 - 15) (1 where that
\* is not positive), the node at index i is at x = (2*i + 1) * (r + 15), and
\* two nodes of a level are at least the sum of their radii apart.
C19_SameLevelPlacement ==
  [][ (lastOp' = "d3TreeLayout" /\ layoutStatus' = "resolved"
       /\ Len(layoutGraph.nodeIds) > 0) =>
        LET levels == sameLeveNodesList(HierarchyOf(layoutGraph),
                                        rootNode(layoutGraph, opts))
            ns == layoutGraph'.nodes
        IN \A d \in 1..Len(levels) :
             LET level == levels[d]
                 r == ClaimedRadius(lastParams'[1].width, Len(level))
             IN /\ \A i \in 1..Len(level) :
                     /\ ns[level[i]].radius = r
                     /\ ns[level[i]].x = Times(Num(2 * (i - 1) + 1), Plus(r, Num(15)))
                /\ \A i, j \in 1..Len(level) :
                     i # j =>
                       ~Less(AbsNum(Minus(ns[level[i]].x, ns[level[j]].x)),
                             Plus(ns[level[i]].radius, ns[level[j]].radius)) ]_vars

\* w/n/2 - 15, the radius before its limits
UncappedRadius(w, n) == Minus(Over(Over(Num(w), Num(n)), Num(2)), Num(15))

\* C19 (amended): after the tree layout on a canvas of width w the nodes of a
\* level of n nodes share the radius r = min(50, w/n/2 - 15) (1 where that is
\* not positive); where w/n/2 - 15 is positive the node at index i is at
\* x = (2*i + 1) * ((w/n/2 - 15) + 15), the value before the limit of 50, and
\* two nodes of the level are at least the sum of their radii apart.
C19_SameLevelPlacement_Amended ==
  [][ (lastOp' = "d3TreeLayout" /\ layoutStatus' = "resolved"
       /\ Len(layoutGraph.nodeIds) > 0) =>
        LET levels == sameLeveNodesList(HierarchyOf(layoutGraph),
                                        rootNode(layoutGraph, opts))
            ns == layoutGraph'.nodes
        IN \A d \in 1..Len(levels) :
             LET level == levels[d]
                 u == UncappedRadius(lastParams'[1].width, Len(level))
             IN /\ \A i \in 1..Len(level) :
                     ns[level[i]].radius = ClaimedRadius(lastParams'[1].width, Len(level))
                /\ Less(Num(0), u) =>
                     /\ \A i \in 1..Len(level) :
                          ns[level[i]].x = Times(Num(2 * (i - 1) + 1), Plus(u, Num(15)))
                     /\ \A i, j \in 1..Len(level) :
                          i # j =>
                            ~Less(AbsNum(Minus(ns[level[i]].x, ns[level[j]].x)),
                                  Plus(ns[level[i]].radius, ns[level[j]].radius)) ]_vars

\* a tree layout on a canvas 160 wide has placed a root, of radius 50, over a
\* level of two nodes of radius 25
C19_Witness_TwoOnALevel ==
  /\ lastOp = "d3TreeLayout" /\ layoutStatus = "resolved"
  /\ lastParams = Some([width |-> 160, height |-> 90])
  /\ Len(layoutGraph.nodeIds) = 3
  /\ layoutGraph.nodes["A"].x = Num(80) /\ layoutGraph.nodes["A"].radius = Num(50)
  /\ layoutGraph.nodes["B"].x = Num(40) /\ layoutGraph.nodes["B"].radius = Num(25)
  /\ layoutGraph.nodes["C"].x = Num(120) /\ layoutGraph.nodes["C"].radius = Num(25)

(***************************************************************************)
(* The view with its layout: the visualizer of render() lays the graph out  *)
(* with new GraphLayout(d3ForceLayout()), once it is mounted, between two   *)
(* handlers.                                                                *)
(***************************************************************************)
\* the canvas the visualizer measures
ViewCanvasSizes == {[width |-> 200, height |-> 200]}

\* where the simulation leaves the nodes
ViewSimulations ==
  {[n \in Nodes |-> IF n = "n1" THEN [x |-> 0, y |-> 0] ELSE [x |-> 400, y |-> 400]]}

ViewLayout(layoutParams, sim) ==
  /\ EventLoopFree
  /\ vue # Undefined
  /\ layoutRuns < MaxViewLayouts
  /\ nodes' = d3ForceLayout(layoutParams, nodes, sim)
  /\ layoutRuns' = layoutRuns + 1
  /\ lastOp' = "d3ForceLayout"
  /\ lastParams' = Some(layoutParams)
  /\ UNCHANGED <<edges, idMap, vue, output, previouslyRendered, pendingRenders,
                 initialRenders, prompt, lastSent, layoutGraph, opts, layoutStatus,
                 executor>>

NextView ==
  \/ Next
  \/ \E layoutParams \in ViewCanvasSizes :
       \E sim \in ViewSimulations : ViewLayout(layoutParams, sim)

SpecView == Init /\ [][NextView]_vars

\* C16: in every state reached by inbound messages, gestures and layout runs
\* the graph has the nodes, the edges and the idMap keys it was built with,
\* every idMap entry names an object held in graph.nodes or graph.edges, and
\* the source and target of every edge resolve to nodes through idMap.
C16_GraphStructure ==
  /\ DOMAIN nodes = Nodes
  /\ DOMAIN edges = Edges
  /\ DOMAIN idMap = Nodes \cup Edges
  /\ \A id \in DOMAIN idMap :
       /\ idMap[id] = id
       /\ idMap[id] \in DOMAIN nodes \cup DOMAIN edges
  /\ \A e \in Edges :
       /\ Source[e] \in DOMAIN idMap /\ idMap[Source[e]] \in DOMAIN nodes
       /\ Target[e] \in DOMAIN idMap /\ idMap[Target[e]] \in DOMAIN nodes

\* a state after a highlight, a SetDomains, a gesture and a layout run
C16_Witness_AllKinds ==
  /\ lastOp = "gesture"
  /\ nodes["n1"].stroke = "red"
  /\ nodes["n1"].domain = Some(<<DomA>>)
  /\ edges["e1"].strokeWidth = 7
  /\ HasPosition(nodes["n1"])

(***************************************************************************)
(* Style writers: the highlights of the viewer and updateNodeBounds of the  *)
(* visualizers, on style objects that carry the measured sizes as well.     *)
(***************************************************************************)
\* a node whose styles have the size fields of the Search (rx, ry) and Bayes
\* (width, height) visualizers, not yet measured (an unset size is written 0)
SizedNode == [domain |-> Some(InitialDomain), stroke |-> Undefined,
              strokeWidth |-> 0, x |-> NoValue, y |-> NoValue,
              rx |-> 0, ry |-> 0, width |-> 0, height |-> 0]

\* an edge whose styles have the size of its target (Bayes), not yet measured
SizedEdge == [stroke |-> Undefined, strokeWidth |-> 0,
              targetWidth |-> 0, targetHeight |-> 0]

\* the bounds a rendered node reports to the Search visualizer
SearchBounds == {[rx |-> 10, ry |-> 20]}

\* the bounds a rendered node reports to the Bayes visualizer
BayesBounds == {[width |-> 30, height |-> 40]}

\* a bounds update that replaces the styles object by one holding the bounds
SearchUpdateNodeBounds_replacing(g, node, bounds) ==
  [g EXCEPT !.nodes[node] = [SizedNode EXCEPT !.domain = g.nodes[node].domain,
                                              !.x = g.nodes[node].x,
                                              !.y = g.nodes[node].y,
                                              !.rx = bounds.rx,
                                              !.ry = bounds.ry]]

\* SearchVisualizer.updateNodeBounds:
\*   node.styles.rx = bounds.rx; node.styles.ry = bounds.ry
SearchUpdateNodeBounds(g, node, bounds) ==
  [g EXCEPT !.nodes[node].rx = bounds.rx, !.nodes[node].ry = bounds.ry]

\* BayesVisualizer.updateNodeBounds: the node's width and height, and
\* targetWidth and targetHeight of every edge whose target is the node
BayesUpdateNodeBounds(g, node, bounds) ==
  [g EXCEPT !.nodes[node].width = bounds.width,
            !.nodes[node].height = bounds.height,
            !.edges = [e \in Edges |->
                         IF Target[e] = node
                           THEN [@[e] EXCEPT !.targetWidth = bounds.width,
                                             !.targetHeight = bounds.height]
                           ELSE @[e]]]

\* a rendered node reports its bounds and the visualizer's handler stores them
UpdateNodeBounds(g) ==
  /\ EventLoopFree
  /\ vue # Undefined
  /\ nodes' = g.nodes
  /\ edges' = g.edges
  /\ lastOp' = "updateNodeBounds"
  /\ lastSent' = <<>>
  /\ UNCHANGED <<idMap, vue, output, previouslyRendered, pendingRenders,
                 initialRenders, prompt>>
  /\ UNCHANGED layoutVars

SearchBoundsUpdate ==
  \E node \in Nodes, bounds \in SearchBounds :
    UpdateNodeBounds(SearchUpdateNodeBounds(Graph, node, bounds))

BayesBoundsUpdate ==
  \E node \in Nodes, bounds \in BayesBounds :
    UpdateNodeBounds(BayesUpdateNodeBounds(Graph, node, bounds))

\* a highlight message arrives
HighlightMsg ==
  \E event \in HighlightArcsEvents \cup HighlightNodesEvents : ViewMsg(event)

InitStyles ==
  /\ nodes = [n \in Nodes |-> SizedNode]
  /\ edges = [e \in Edges |-> SizedEdge]
  /\ idMap = InitialIdMap
  /\ vue = Undefined
  /\ output = Null
  /\ previouslyRendered = FALSE
  /\ pendingRenders = 0
  /\ initialRenders = 0
  /\ prompt = NoValue
  /\ lastOp = "initialize"
  /\ lastSent = <<>>
  /\ lastParams = NoValue
  /\ layoutStatus = "none"
  /\ layoutRuns = 0
  /\ executor = NoValue
  /\ layoutGraph = EmptyGraph
  /\ opts = [rootId |-> NoValue]

NextStyles ==
  \/ Render
  \/ RenderCallback
  \/ HighlightMsg
  \/ SearchBoundsUpdate
  \/ BayesBoundsUpdate

SpecStyles == InitStyles /\ [][NextStyles]_vars

\* the stroke fields of a style object, which the highlights write
StrokeOf(styles) == [stroke |-> styles.stroke, strokeWidth |-> styles.strokeWidth]

\* the size fields of a node's style object, which the bounds updates write
NodeSizeOf(styles) == [rx |-> styles.rx, ry |-> styles.ry,
                       width |-> styles.width, height |-> styles.height]

\* the size fields of an edge's style object
EdgeSizeOf(styles) == [targetWidth |-> styles.targetWidth,
                       targetHeight |-> styles.targetHeight]

\* g and h have the same stroke fields on every node and edge
SameStrokes(g, h) ==
  /\ \A n \in Nodes : StrokeOf(g.nodes[n]) = StrokeOf(h.nodes[n])
  /\ \A e \in Edges : StrokeOf(g.edges[e]) = StrokeOf(h.edges[e])

\* g and h have the same size fields on every node and edge
SameSizes(g, h) ==
  /\ \A n \in Nodes : NodeSizeOf(g.nodes[n]) = NodeSizeOf(h.nodes[n])
  /\ \A e \in Edges : EdgeSizeOf(g.edges[e]) = EdgeSizeOf(h.edges[e])

\* C17: in a rendered view, for every highlight (HighlightArcs or
\* HighlightNodes) and every bounds update of a node, the highlight leaves
\* every size field as it was, the bounds update leaves every stroke field as
\* it was, and the two applied in either order leave the same graph, which has
\* the stroke fields the highlight alone gives and the size fields the bounds
\* update alone gives.
C17_StyleWritersCommute ==
  (EventLoopFree /\ vue # Undefined) =>
    \A event \in HighlightArcsEvents \cup HighlightNodesEvents :
      \E h \in {Listener(Graph, output, vue, event).graph} :
        /\ SameSizes(h, Graph)
        /\ \A node \in Nodes :
             \A kind \in {"search", "bayes"} :
               \A bounds \in IF kind = "search" THEN SearchBounds ELSE BayesBounds :
                 \E b \in {IF kind = "search"
                             THEN SearchUpdateNodeBounds(Graph, node, bounds)
                             ELSE BayesUpdateNodeBounds(Graph, node, bounds)} :
                 \E hb \in {IF kind = "search"
                              THEN SearchUpdateNodeBounds(h, node, bounds)
                              ELSE BayesUpdateNodeBounds(h, node, bounds)} :
                   /\ SameStrokes(b, Graph)
                   /\ hb = Listener(b, output, vue, event).graph
                   /\ SameStrokes(hb, h)
                   /\ SameSizes(hb, b)
                   /\ \A n \in Nodes : hb.nodes[n].domain = nodes[n].domain

\* n1 has been highlighted and measured by both visualizers, and the edge into
\* it carries the bootstrap highlight and the size of its target
C17_Witness_HighlightedAndMeasured ==
  /\ lastOp = "updateNodeBounds"
  /\ StrokeOf(nodes["n1"]) = [stroke |-> "red", strokeWidth |-> 2]
  /\ NodeSizeOf(nodes["n1"]) = [rx |-> 10, ry |-> 20, width |-> 30, height |-> 40]
  /\ \E e \in Edges :
       /\ Target[e] = "n1"
       /\ edges[e].strokeWidth > 0
       /\ EdgeSizeOf(edges[e]) = [targetWidth |-> 30, targetHeight |-> 40]

(***************************************************************************)
(* The promise executors of the layouts, step by step: a setup or relayout  *)
(* call computes, writes the shared graph node after node, and calls        *)
(* resolve(). The view's graph is laid out by d3ForceLayout and by          *)
(* relativeLayout, layoutGraph by d3TreeLayout.                             *)
(***************************************************************************)
\* graph.nodes of the view, in order
NodeOrder == <<"n1", "n2">>

\* an executor that hands the thread back after each of its writes
Yields_betweenWrites(op, written) == written > 0

\* where an executor hands the thread back before it returns: the tick loop,
\* the writes and resolve() are one block without an await or a timer
Yields(op, written) == FALSE

\* no handler and no executor holds the JavaScript thread
ThreadFree ==
  IF executor = NoValue THEN TRUE ELSE Yields(executor.op, executor.written)

\* the node maps a loop over the nodes in order leaves, from -> to
RECURSIVE NodeWrites(_, _, _)
NodeWrites(from, to, order) ==
  IF order = <<>> THEN <<>>
  ELSE LET next == [n \in DOMAIN from |-> IF n = Head(order) THEN to[n] ELSE from[n]]
       IN <<next>> \o NodeWrites(next, to, Tail(order))

WriteStep(target, value) == [kind |-> "write", target |-> target, value |-> value]
ResolveStep == [kind |-> "resolve", target |-> "promise", value |-> NoValue]
\* d3.hierarchy(rootData) on data with a cycle
LoopStep == [kind |-> "loop", target |-> "promise", value |-> NoValue]

\* the executor of d3ForceLayout: scaleNodePositions(layoutParams,
\* graph.nodes), the copy of the simulated positions, resolve()
ForceSteps(layoutParams, ns, sim) ==
  LET scaled == scaleNodePositions(layoutParams, ns)
      writes == NodeWrites(ns, scaled, NodeOrder)
                  \o NodeWrites(scaled, d3ForceLayout(layoutParams, ns, sim), NodeOrder)
  IN [i \in 1..Len(writes) |-> WriteStep("nodes", writes[i])] \o <<ResolveStep>>

\* the executor of relativeLayout: scaleNodePositions(layoutParams,
\* graph.nodes), resolve()
RelativeSteps(layoutParams, ns) ==
  LET writes == NodeWrites(ns, relativeLayout(layoutParams, ns), NodeOrder)
  IN [i \in 1..Len(writes) |-> WriteStep("nodes", writes[i])] \o <<ResolveStep>>

\* the executor of d3TreeLayout: the hierarchy, radius, x and y of every node,
\* the ends and offsets of the edges, resolve()
TreeSteps(g, o, layoutParams, breadth) ==
  LET r == d3TreeLayout(g, o, layoutParams, breadth)
      writes == NodeWrites(g.nodes, r.graph.nodes, g.nodeIds)
  IN IF r.status = "diverged" THEN <<LoopStep>>
     ELSE IF Len(g.nodeIds) = 0 THEN <<ResolveStep>>
     ELSE [i \in 1..Len(writes) |->
             WriteStep("layoutGraph", [g EXCEPT !.nodes = writes[i]])]
            \o <<WriteStep("layoutGraph", r.graph), ResolveStep>>

\* layout.setup(graph, layoutParams) or layout.relayout(graph, layoutParams):
\* the layout function runs up to its first write
BeginLayout(op, layoutParams, steps) ==
  /\ ThreadFree
  /\ EventLoopFree
  /\ vue # Undefined
  /\ layoutRuns < MaxRuns
  /\ executor' = [op |-> op, steps |-> steps, written |-> 0]
  /\ layoutRuns' = layoutRuns + 1
  /\ layoutStatus' = "running"
  /\ lastOp' = op
  /\ lastSent' = <<>>
  /\ lastParams' = Some(layoutParams)
  /\ UNCHANGED <<nodes, edges, idMap, vue, output, previouslyRendered,
                 pendingRenders, initialRenders, prompt, layoutGraph, opts>>

BeginForce ==
  \E layoutParams \in ViewCanvasSizes, sim \in ViewSimulations :
    BeginLayout("d3ForceLayout", layoutParams, ForceSteps(layoutParams, nodes, sim))

BeginRelative ==
  \E layoutParams \in ViewCanvasSizes :
    BeginLayout("relativeLayout", layoutParams, RelativeSteps(layoutParams, nodes))

BeginTree ==
  \E layoutParams \in ViewCanvasSizes, b \in Breadths :
    BeginLayout("d3TreeLayout", layoutParams,
                TreeSteps(layoutGraph, opts, layoutParams,
                          [id \in Range(layoutGraph.nodeIds) |-> b]))

\* the executor with its first step taken
Advance(e) ==
  IF Len(e.steps) = 1 THEN NoValue
  ELSE [e EXCEPT !.steps = Tail(@),
                 !.written = IF Head(e.steps).kind = "write" THEN @ + 1 ELSE @]

\* the next statement of the executor: a write to the graph, or resolve()
ExecutorStep ==
  /\ executor # NoValue
  /\ Head(executor.steps).kind # "loop"
  /\ \E step \in {Head(executor.steps)} :
       /\ nodes' = IF step.target = "nodes" THEN step.value ELSE nodes
       /\ layoutGraph' = IF step.target = "layoutGraph" THEN step.value ELSE layoutGraph
       /\ layoutStatus' = IF step.kind = "resolve" THEN "resolved" ELSE layoutStatus
  /\ executor' = Advance(executor)
  /\ lastOp' = executor.op
  /\ lastSent' = <<>>
  /\ UNCHANGED <<edges, idMap, vue, output, previouslyRendered, pendingRenders,
                 initialRenders, prompt, lastParams, opts, layoutRuns>>

\* the graphs the tree layout is given: an edge, and a cycle of three
RunGraphs ==
  {GraphOf(<<"A", "B">>, <<(<<"A", "B">>)>>),
   GraphOf(<<"A", "B", "C">>, <<(<<"A", "B">>), (<<"B", "C">>), (<<"C", "A">>)>>)}

\* the messages that arrive while the layouts run
RunEvents == {event \in HighlightNodesEvents : event.nodeIds = <<"n1">>} \cup OutputEvents

InitRun ==
  /\ layoutGraph \in RunGraphs
  /\ opts = [rootId |-> NoValue]
  /\ InitView

\* every handler is a task of the one thread: it starts when the thread is free
NextRun ==
  \/ ThreadFree /\ Render
  \/ ThreadFree /\ RenderCallback
  \/ ThreadFree /\ \E event \in RunEvents : ViewMsg(event)
  \/ ThreadFree /\ \E n \in Nodes : NodeClick(n)
  \/ BeginForce
  \/ BeginRelative
  \/ BeginTree
  \/ ExecutorStep

SpecRun == InitRun /\ [][NextRun]_vars

\* a layout call has written to the graph and has not called resolve() yet
MidRun == executor # NoValue /\ executor.written > 0

\* C20: from the first write of a layout call to the graph until its
\* resolve(), every step is the next statement of that call's executor: no
\* message handler, gesture handler or other layout call runs, what they
\* would change is unchanged; and resolve() is called with no write left.
C20_LayoutRunAtomic ==
  [][ /\ MidRun =>
           /\ executor' = Advance(executor)
           /\ lastOp' = executor.op
           /\ lastSent' = <<>>
           /\ UNCHANGED <<edges, idMap, vue, output, previouslyRendered,
                          pendingRenders, initialRenders, prompt, lastParams,
                          layoutRuns>>
      /\ (layoutStatus # "resolved" /\ layoutStatus' = "resolved") =>
           /\ executor # NoValue
           /\ Head(executor.steps).kind = "resolve"
           /\ \A i \in 2..Len(executor.steps) : executor.steps[i].kind # "write"
    ]_vars

\* in a rendered view with n1 highlighted, the force layout has given n1 its
\* position and not yet n2
C20_Witness_PartlyWritten ==
  /\ MidRun
  /\ executor.op = "d3ForceLayout"
  /\ vue # Undefined
  /\ nodes["n1"].stroke = "red"
  /\ HasPosition(nodes["n1"])
  /\ ~HasPosition(nodes["n2"])

(***************************************************************************)
(* The view displayed again: a new CSPViewer of the same model. Its         *)
(* initialize() registers the listener at once, its render() mounts the     *)
(* Vue instance in a timeout callback; the model keeps previouslyRendered,  *)
(* and the controller, which has had "initial_render", keeps sending.       *)
(***************************************************************************)
\* initialize() of the view of a model that has been rendered before
Initialize ==
  /\ EventLoopFree
  /\ previouslyRendered
  /\ vue # Undefined
  /\ nodes' = [n \in Nodes |-> InitialNode]
  /\ edges' = [e \in Edges |-> InitialEdge]
  /\ idMap' = InitialIdMap
  /\ vue' = Undefined
  /\ output' = Null
  /\ pendingRenders' = 0
  /\ lastOp' = "initialize"
  /\ lastSent' = <<>>
  /\ UNCHANGED <<previouslyRendered, initialRenders, prompt>>
  /\ UNCHANGED layoutVars

\* the messages whose handlers use this.vue
VueEvents == HighlightArcsEvents \cup HighlightNodesEvents \cup OutputEvents

\* the controller sends once it has had "initial_render"
Dispatching == initialRenders > 0

NextRedisplay ==
  \/ Dispatching /\ \E event \in VueEvents : ViewMsg(event)
  \/ Render
  \/ RenderCallback
  \/ \E n \in Nodes : NodeClick(n)
  \/ Initialize

SpecRedisplay == Init /\ [][NextRedisplay]_vars

\* C21: the listener handles a HighlightArcs, HighlightNodes or Output
\* message only when this.vue is set: no such message is handled between
\* initialize() and the render callback that mounts the Vue instance.
C21_ListenerAfterMount ==
  [][ lastOp' \in {event.action : event \in VueEvents} => vue # Undefined ]_vars

====
